---- MODULE Spec2Model ----
(***************************************************************************)
(* Model of the translation store of tinylocalize (magic-translate.tsx     *)
(* and its variant with the language manager, src/unnamed/part_000).       *)
(*                                                                         *)
(* JavaScript strings are sequences of one-character strings, so that      *)
(* split('.'), the interpolation regular expression, trim, toLowerCase     *)
(* and includes are computed and not assumed.  A JSON value is a record    *)
(* tagged by t: "str" and "num" carry their string form s, "obj" carries   *)
(* its own properties m, "null" and "undef" carry nothing, and "fn" is a   *)
(* function value reached through Object.prototype.                        *)
(***************************************************************************)
EXTENDS Integers, Sequences, FiniteSets, TLC

(***************************************************************************)
(* Bounds of the model.                                                    *)
(***************************************************************************)
NumLangs == 2        \* how many entries of languagesToTry are modelled
MaxOps == 1          \* user operations (edit, addLanguage, ...) per run
MaxSwitches == 1     \* setCurrentLang calls per run

(***************************************************************************)
(* Strings of the program.                                                 *)
(***************************************************************************)
TodoPrefix == <<"T", "O", "D", "O", ":", " ", "T", "r", "a", "n", "s", "l", "a", "t", "e", " ", "\"">>
TodoSuffix == <<"\"">>
ObjectPrefix == <<"[", "O", "b", "j", "e", "c", "t", ":", " ">>
ObjectSuffix == <<"]">>
FnObjectText == <<"f", "u", "n", "c", "t", "i", "o", "n", " ", "O", "b", "j", "e", "c", "t", "(", ")", " ", "{", " ", "[", "n", "a", "t", "i", "v", "e", " ", "c", "o", "d", "e", "]", " ", "}">>
ObjectObjectText == <<"[", "o", "b", "j", "e", "c", "t", " ", "O", "b", "j", "e", "c", "t", "]">>
constructorName == <<"c", "o", "n", "s", "t", "r", "u", "c", "t", "o", "r">>
WordChars == {"a", "b", "c", "d", "e", "f", "g", "h", "i", "j", "k", "l", "m", "n", "o", "p", "q", "r", "s", "t", "u", "v", "w", "x", "y", "z", "A", "B", "C", "D", "E", "F", "G", "H", "I", "J", "K", "L", "M", "N", "O", "P", "Q", "R", "S", "T", "U", "V", "W", "X", "Y", "Z", "0", "1", "2", "3", "4", "5", "6", "7", "8", "9", "_"}

(***************************************************************************)
(* JSON values.                                                            *)
(***************************************************************************)
Undefined == [t |-> "undef"]
Null == [t |-> "null"]
Str(s) == [t |-> "str", s |-> s]
Num(s) == [t |-> "num", s |-> s]
Obj(m) == [t |-> "obj", m |-> m]
EmptyMap == [x \in {} |-> Undefined]
EmptyObj == Obj(EmptyMap)

\* the properties every plain object inherits (Object.prototype); the model
\* keeps the one that a key made of word characters can name
ObjectPrototype == [x \in {constructorName} |-> [t |-> "fn", s |-> FnObjectText]]

\* JavaScript truthiness of a value
Truthy(v) ==
  CASE v.t = "undef" -> FALSE
    [] v.t = "null" -> FALSE
    [] v.t = "str" -> v.s # <<>>
    [] v.t = "num" -> v.s # <<"0">>
    [] OTHER -> TRUE

\* typeof v === 'object'
TypeofObject(v) == v.t \in {"obj", "null"}

\* k in o, for an object o
HasProperty(o, k) == k \in DOMAIN o.m \/ k \in DOMAIN ObjectPrototype

\* o[k], for an object o
GetProperty(o, k) ==
  IF k \in DOMAIN o.m THEN o.m[k]
  ELSE IF k \in DOMAIN ObjectPrototype THEN ObjectPrototype[k]
  ELSE Undefined

\* v.toString(), for a value that is neither null nor undefined
JsToString(v) == IF v.t = "obj" THEN ObjectObjectText ELSE v.s

\* Object.keys(o).length, also for the o || {} of the callers
OwnKeys(v) == IF v.t = "obj" THEN DOMAIN v.m ELSE {}

(***************************************************************************)
(* key.split('.')                                                          *)
(***************************************************************************)
RECURSIVE SplitFrom(_, _, _)
SplitFrom(s, i, cur) ==
  IF i > Len(s) THEN <<cur>>
  ELSE IF s[i] = "." THEN <<cur>> \o SplitFrom(s, i + 1, <<>>)
  ELSE SplitFrom(s, i + 1, Append(cur, s[i]))

Split(s) == SplitFrom(s, 1, <<>>)

(***************************************************************************)
(* The walk of internalT: one segment at a time, undefined at the first    *)
(* segment that cannot be followed.                                        *)
(***************************************************************************)
RECURSIVE Walk(_, _)
Walk(value, keys) ==
  IF keys = <<>> THEN value
  ELSE IF Truthy(value) /\ TypeofObject(value) /\ HasProperty(value, Head(keys))
       THEN Walk(GetProperty(value, Head(keys)), Tail(keys))
       ELSE Undefined

(***************************************************************************)
(* value.replace(/\{\{(\w+)\}\}/g, (match, varName) =>                     *)
(*                 vars[varName]?.toString() || match)                     *)
(***************************************************************************)
\* the last index of the run of word characters that starts at j (j-1 if none)
RECURSIVE RunEnd(_, _)
RunEnd(s, j) ==
  IF j <= Len(s) /\ s[j] \in WordChars THEN RunEnd(s, j + 1) ELSE j - 1

\* vars[varName]: vars is a plain object too
VarLookup(vars, varName) ==
  IF varName \in DOMAIN vars THEN vars[varName]
  ELSE IF varName \in DOMAIN ObjectPrototype THEN ObjectPrototype[varName]
  ELSE Undefined

Replacement(match, varName, vars) ==
  LET v == VarLookup(vars, varName) IN
    IF v.t \in {"undef", "null"} THEN match
    ELSE IF JsToString(v) # <<>> THEN JsToString(v) ELSE match

RECURSIVE ReplaceFrom(_, _, _)
ReplaceFrom(s, i, vars) ==
  IF i > Len(s) THEN <<>>
  ELSE IF i + 1 <= Len(s) /\ s[i] = "{" /\ s[i + 1] = "{"
       THEN LET e == RunEnd(s, i + 2) IN
              IF e >= i + 2 /\ e + 2 <= Len(s) /\ s[e + 1] = "}" /\ s[e + 2] = "}"
              THEN Replacement(SubSeq(s, i, e + 2), SubSeq(s, i + 2, e), vars)
                     \o ReplaceFrom(s, e + 3, vars)
              ELSE <<s[i]>> \o ReplaceFrom(s, i + 1, vars)
       ELSE <<s[i]>> \o ReplaceFrom(s, i + 1, vars)

Interpolate(s, vars) == ReplaceFrom(s, 1, vars)

(***************************************************************************)
(* internalT: the value returned for key and vars, given the tree of the   *)
(* active language (Undefined when the language has none).                 *)
(***************************************************************************)
TodoText(key) == TodoPrefix \o key \o TodoSuffix
ObjectText(key) == ObjectPrefix \o key \o ObjectSuffix

\* internalT without the final || fallback
internalT_NoFallback(langTree, key, vars) ==
  LET value == Walk(langTree, Split(key)) IN
    IF value.t \in {"undef", "null"} THEN TodoText(key)
    ELSE IF TypeofObject(value) THEN ObjectText(key)
    ELSE IF value.t = "str" /\ DOMAIN vars # {} THEN Interpolate(value.s, vars)
    ELSE JsToString(value)

\* internalT without the typeof value === 'object' guard
internalT_NoObjectGuard(langTree, key, vars) ==
  LET value == Walk(langTree, Split(key)) IN
    IF value.t \in {"undef", "null"} THEN TodoText(key)
    ELSE IF value.t = "str" /\ DOMAIN vars # {} THEN Interpolate(value.s, vars)
    ELSE IF JsToString(value) # <<>> THEN JsToString(value) ELSE TodoText(key)

internalT(langTree, key, vars) ==
  LET value == Walk(langTree, Split(key)) IN
    IF value.t \in {"undef", "null"} THEN TodoText(key)
    ELSE IF TypeofObject(value) THEN ObjectText(key)
    ELSE IF value.t = "str" /\ DOMAIN vars # {} THEN Interpolate(value.s, vars)
    ELSE IF JsToString(value) # <<>> THEN JsToString(value) ELSE TodoText(key)

(***************************************************************************)
(* String helpers of the metadata and language operations.                 *)
(***************************************************************************)
Whitespace == {" ", "\t", "\n", "\r"}

RECURSIVE TrimStart(_)
TrimStart(s) == IF s # <<>> /\ Head(s) \in Whitespace THEN TrimStart(Tail(s)) ELSE s

RECURSIVE TrimEnd(_)
TrimEnd(s) ==
  IF s # <<>> /\ s[Len(s)] \in Whitespace THEN TrimEnd(SubSeq(s, 1, Len(s) - 1)) ELSE s

\* s.trim()
Trim(s) == TrimEnd(TrimStart(s))

\* s.includes(sub)
Includes(s, sub) ==
  \E i \in 1..(Len(s) - Len(sub) + 1) : SubSeq(s, i, i + Len(sub) - 1) = sub

UpperToLower ==
  [c \in {"A", "B", "C", "D", "E", "F", "G", "H", "I", "J", "K", "L", "M", "N", "O", "P", "Q", "R", "S", "T", "U", "V", "W", "X", "Y", "Z"} |->
    CASE c = "A" -> "a" [] c = "B" -> "b" [] c = "C" -> "c" [] c = "D" -> "d"
      [] c = "E" -> "e" [] c = "F" -> "f" [] c = "G" -> "g" [] c = "H" -> "h"
      [] c = "I" -> "i" [] c = "J" -> "j" [] c = "K" -> "k" [] c = "L" -> "l"
      [] c = "M" -> "m" [] c = "N" -> "n" [] c = "O" -> "o" [] c = "P" -> "p"
      [] c = "Q" -> "q" [] c = "R" -> "r" [] c = "S" -> "s" [] c = "T" -> "t"
      [] c = "U" -> "u" [] c = "V" -> "v" [] c = "W" -> "w" [] c = "X" -> "x"
      [] c = "Y" -> "y" [] c = "Z" -> "z"]

\* a toLowerCase that leaves the string as it is
ToLowerCase_Identity(s) == s

\* s.toLowerCase()
ToLowerCase(s) ==
  [i \in 1..Len(s) |-> IF s[i] \in DOMAIN UpperToLower THEN UpperToLower[s[i]] ELSE s[i]]

TodoMarker == <<"T", "O", "D", "O", ":">>

\* a status expression that takes brackets for a mark of review only when
\* a [ comes before a ]
StatusOf_BracketOrder(value) ==
  IF value = <<>> \/ Trim(value) = <<>> THEN "missing"
  ELSE IF Includes(value, TodoMarker)
          \/ (\E i, j \in 1..Len(value) : i < j /\ value[i] = "[" /\ value[j] = "]")
       THEN "needs_review"
       ELSE "complete"

\* the status expression of updateTranslationMetadata
StatusOf(value) ==
  IF value = <<>> \/ Trim(value) = <<>> THEN "missing"
  ELSE IF Includes(value, TodoMarker) \/ (Includes(value, <<"[">>) /\ Includes(value, <<"]">>))
       THEN "needs_review"
       ELSE "complete"

\* the inherited property k of a string, a number or a function: the model
\* keeps constructor, which is a function for each of them
NativeFnText(name) ==
  <<"f", "u", "n", "c", "t", "i", "o", "n", " ">> \o name
    \o <<"(", ")", " ", "{", " ", "[", "n", "a", "t", "i", "v", "e", " ", "c", "o", "d", "e", "]", " ", "}">>

ConstructorOf(v) ==
  CASE v.t = "str" -> [t |-> "fn", s |-> NativeFnText(<<"S", "t", "r", "i", "n", "g">>)]
    [] v.t = "num" -> [t |-> "fn", s |-> NativeFnText(<<"N", "u", "m", "b", "e", "r">>)]
    [] v.t = "fn" -> [t |-> "fn", s |-> NativeFnText(<<"F", "u", "n", "c", "t", "i", "o", "n">>)]
    [] OTHER -> ObjectPrototype[constructorName]

\* current?.[key]: undefined for null and undefined; for the other values
\* the own property, then the inherited one (the keys of the model name no
\* index and no length of a string)
OptionalProperty(v, k) ==
  IF v.t \in {"undef", "null"} THEN Undefined
  ELSE IF v.t = "obj" /\ k \in DOMAIN v.m THEN v.m[k]
  ELSE IF k = constructorName THEN ConstructorOf(v)
  ELSE Undefined

\* getValue(obj, path) of the editor, for the segments of path
RECURSIVE GetValue(_, _)
GetValue(v, segs) ==
  IF segs = <<>> THEN v ELSE GetValue(OptionalProperty(v, Head(segs)), Tail(segs))

\* the status expression of getTranslationStatus, for a key without metadata
DerivedStatus(value) ==
  IF ~Truthy(value) THEN "missing"
  ELSE IF Trim(JsToString(value)) = <<>> THEN "missing"
  ELSE IF Includes(JsToString(value), TodoMarker)
          \/ (Includes(JsToString(value), <<"[">>) /\ Includes(JsToString(value), <<"]">>))
       THEN "needs_review"
       ELSE "complete"

(***************************************************************************)
(* Objects: spread, assignment, JSON.                                      *)
(***************************************************************************)
\* the own enumerable properties that a spread copies
SpreadOf(v) == IF v.t = "obj" THEN v.m ELSE EmptyMap

\* a merge in which the entries of base win
ShallowMerge_BaseWins(base, over) ==
  Obj([k \in DOMAIN SpreadOf(base) \cup DOMAIN SpreadOf(over) |->
        IF k \in DOMAIN SpreadOf(base) THEN SpreadOf(base)[k] ELSE SpreadOf(over)[k]])

\* { ...base, ...over }
ShallowMerge(base, over) ==
  Obj([k \in DOMAIN SpreadOf(base) \cup DOMAIN SpreadOf(over) |->
        IF k \in DOMAIN SpreadOf(over) THEN SpreadOf(over)[k] ELSE SpreadOf(base)[k]])

\* a map with m[k] = v
MapSet(m, k, v) == [x \in DOMAIN m \cup {k} |-> IF x = k THEN v ELSE m[x]]

\* Object.keys after o[k] = v: a new key comes last, an old one keeps its
\* place (the language codes are no integer-like keys)
OrderWith(order, k) ==
  IF \E i \in 1..Len(order) : order[i] = k THEN order ELSE Append(order, k)

\* Object.keys after the keys ks have been assigned one after the other
RECURSIVE OrderWithAll(_, _)
OrderWithAll(order, ks) ==
  IF ks = <<>> THEN order ELSE OrderWithAll(OrderWith(order, Head(ks)), Tail(ks))

\* Object.keys after delete o[k] for the keys k of gone
RECURSIVE OrderWithout(_, _)
OrderWithout(order, gone) ==
  IF order = <<>> THEN <<>>
  ELSE IF Head(order) \in gone THEN OrderWithout(Tail(order), gone)
       ELSE <<Head(order)>> \o OrderWithout(Tail(order), gone)

\* globalTranslations[lang]
TreeOf(gt, lang) == IF lang \in DOMAIN gt THEN gt[lang] ELSE Undefined

\* JSON.parse(JSON.stringify(v)) of a value: properties holding a function
\* or undefined are not written
RECURSIVE JsonCopy(_)
JsonCopy(v) ==
  IF v.t = "obj"
  THEN Obj([k \in {x \in DOMAIN v.m : v.m[x].t \notin {"fn", "undef"}} |-> JsonCopy(v.m[k])])
  ELSE v

JsonCopyAll(gt) == [l \in DOMAIN gt |-> JsonCopy(gt[l])]

(***************************************************************************)
(* Inputs of the model: language codes, keys, values, documents.           *)
(***************************************************************************)
en == <<"e", "n">>
fr == <<"f", "r">>
es == <<"e", "s">>
de == <<"d", "e">>
it == <<"i", "t">>
languagesToTry == <<en, fr, es, de>>
\* the prefix of languagesToTry that the model fetches
LanguagesToTry == SubSeq(languagesToTry, 1, NumLangs)

sHi == <<"H", "i">>
sBye == <<"B", "y", "e">>
sYo == <<"Y", "o">>
sSam == <<"S", "a", "m">>
sGreet == <<"H", "i", ",", " ", "{", "{", "n", "a", "m", "e", "}", "}", "!">>
sOne == <<"{", "{", "n", "}", "}">>
sMany == <<"x", "{", "{", "n", "}", "}", "{", "{", "m", "}", "}", "{", "{", "n", "}", "}">>
sTriple == <<"{", "{", "{", "n", "}", "}", "}">>
sOpen == <<"{", "{", "n", "}">>
sNested == <<"{", "{", "m", "}", "}">>
sCtor == <<"{", "{", "c", "o", "n", "s", "t", "r", "u", "c", "t", "o", "r", "}", "}">>

kA == <<"a">>
kB == <<"b">>
kAB == <<"a", ".", "b">>
kABA == <<"a", ".", "b", ".", "a">>
kACtor == <<"a", ".", "c", "o", "n", "s", "t", "r", "u", "c", "t", "o", "r">>
vN == <<"n">>
vM == <<"m">>
vName == <<"n", "a", "m", "e">>

\* {"a": {"b": "Hi, {{name}}!"}, "b": "Bye"}
DocA == Obj((kA :> Obj(kB :> Str(sGreet))) @@ (kB :> Str(sBye)))
\* {"a": "Yo"}
DocB == Obj(kA :> Str(sYo))
Docs == {DocA, DocB, EmptyObj}

\* what a fetch of /locales/<lang>.json gives: kind is "error" when fetch
\* throws, "notok" for a response that is not ok, "badjson" for an ok
\* response whose json() throws, "ok" for an ok response with a document
RespOk(doc) == [kind |-> "ok", body |-> doc]

\* what the base source serves for en and fr when the page is loaded; the
\* further languages of languagesToTry have no file
InitialPairs ==
  {<<RespOk(DocA), [kind |-> "error"]>>, <<RespOk(EmptyObj), RespOk(DocA)>>,
   <<[kind |-> "badjson"], RespOk(DocA)>>, <<RespOk(DocA), RespOk(DocB)>>}
InitialSources ==
  {[l \in {LanguagesToTry[i] : i \in 1..Len(LanguagesToTry)} |->
      IF l = en THEN pr[1] ELSE IF l = fr THEN pr[2] ELSE [kind |-> "notok"]] :
   pr \in InitialPairs}
\* what a deployment or an outage can change it to
ChangedResponses == {[kind |-> "notok"], RespOk(DocB)}

ResolveKeys == {kA, kB, kAB, kABA, constructorName, kACtor}
\* the calls of t that the application makes while the store changes
AppKeys == {kAB}
EditKeys == {kA, kAB}
EditValues == {<<>>, sYo}
NewLangInputs == {<<" ">>, <<"I", "T">>, en}
SwitchLangs == {en, fr}
RemovedLangs == {en, fr}
Callbacks == {"c1", "c2"}

NoVars == EmptyMap
VarMaps ==
  {NoVars,
   vN :> Str(sSam),
   vN :> Str(<<>>),
   vN :> Num(<<"0">>),
   (vN :> Str(sNested)) @@ (vM :> Str(sSam)),
   vName :> Str(sSam)}

(***************************************************************************)
(* localStorage: the three items of the program.  An item is absent or     *)
(* holds the JSON text of a value (kept as the value it parses to).        *)
(***************************************************************************)
NoItem == [k |-> "none"]
JsonItem(v) == [k |-> "json", v |-> v]

\* an item whose text is no JSON
BadItem == [k |-> "text"]

\* JSON.parse(localStorage.getItem(name) || '{}') throws a SyntaxError
ParseThrows(item) == item.k = "text"

\* JSON.parse(localStorage.getItem(name) || '{}') when it does not throw
ParseItem(item) == IF item.k = "json" THEN item.v ELSE EmptyMap

\* what an earlier session of the program can have left behind: nothing,
\* an added language, an edit of the key a
\* order is the order of the languages in the text of the item translations
EditedStorage ==
  [translations |-> JsonItem(en :> Obj(kA :> Str(sHi))),
   metadata |-> JsonItem(en :> (kA :> [characterCount |-> 2, status |-> "complete"])),
   lang |-> en, order |-> <<en>>]
\* an item that another program or the user has overwritten
BrokenStorage ==
  {[translations |-> BadItem, metadata |-> NoItem, lang |-> <<>>, order |-> <<>>],
   [translations |-> JsonItem(en :> Obj(kA :> Str(sHi))), metadata |-> BadItem, lang |-> en,
    order |-> <<en>>]}
StoragePool ==
  {[translations |-> NoItem, metadata |-> NoItem, lang |-> <<>>, order |-> <<>>],
   [translations |-> JsonItem(it :> EmptyObj), metadata |-> JsonItem(EmptyMap), lang |-> it,
    order |-> <<it>>],
   EditedStorage}

(***************************************************************************)
(* State.                                                                  *)
(***************************************************************************)
VARIABLES
  enableUI,             \* MAGIC_CONFIG.enableUI
  build,                \* which of the two source files runs
  moduleError,          \* the evaluation of the module has thrown
  globalTranslations,   \* language code -> tree
  keyOrder,             \* the languages of globalTranslations in insertion order
  translationMetadata,  \* language code -> key -> metadata
  globalLang,           \* the active language
  globalKeys,           \* the key registry
  subscribers,          \* the registered callbacks, in the order of a Set's iteration
  storage,              \* localStorage
  baseSource,           \* language code -> what a fetch gives now
  procs,                \* the invocations of loadProductionTranslations
  overrideReads,        \* reads of the item magic-translations so far
  ops,                  \* user operations so far
  ret,                  \* what the last operation was and returned
  hist,                 \* the store as the last finished reconcile left it
  lastEdit              \* the last edit, and whether a reconcile has finished since

vars == <<enableUI, build, moduleError, globalTranslations, keyOrder, translationMetadata, globalLang,
          globalKeys, subscribers, storage, baseSource, procs, overrideReads,
          ops, ret, hist, lastEdit>>

ProcIds == 0..MaxSwitches
Builds == {"magic-translate", "part_000"}

IdleProc == [st |-> "unused", i |-> 0, notifs |-> 0, succ |-> FALSE]
NoRet == [op |-> "none"]
\* hist: the trees and the metadata as the last finished reconcile left them,
\* kept for as long as nothing but a reconcile has touched the store or the
\* base source since
NoSnap == [has |-> FALSE, t |-> EmptyMap, m |-> EmptyMap]
NoEdit == [has |-> FALSE]
\* lastEdit after an invocation of loadProductionTranslations has returned
EditLoaded(e) == IF e.has THEN [e EXCEPT !.loaded = TRUE] ELSE e
Snap(gt, md) == [has |-> TRUE, t |-> gt, m |-> md]

(***************************************************************************)
(* Module initialisation.                                                  *)
(***************************************************************************)
\* one of the two JSON.parse calls of the module's top level throws; the
\* evaluation of the module ends there and the error goes to the importer
ModuleThrows(ui, st) == ui /\ (ParseThrows(st.translations) \/ ParseThrows(st.metadata))

\* globalTranslations after the module has been evaluated
InitialTranslations(ui, b, st) ==
  IF ui THEN ParseItem(st.translations)
  ELSE IF b = "part_000"
       THEN [l \in {en, fr, es, de} |-> EmptyObj]
       ELSE EmptyMap

\* Object.keys(globalTranslations) after the module has been evaluated
InitialOrder(ui, b, st) ==
  IF ui THEN st.order
  ELSE IF b = "part_000" THEN <<en, fr, es, de>> ELSE <<>>

\* translationMetadata after the module has been evaluated
InitialMetadata(ui, st) ==
  IF ui /\ ~ModuleThrows(ui, st) THEN ParseItem(st.metadata) ELSE EmptyMap

\* localStorage.getItem('magic-lang') || 'en'
InitialLang(st) == IF st.lang # <<>> THEN st.lang ELSE en

\* the startup call of loadProductionTranslations has issued its first fetch
StartedProc(isSucc) ==
  [st |-> "pending", i |-> 1, notifs |-> 0, succ |-> isSucc]

InitCommon ==
  /\ enableUI \in BOOLEAN
  /\ build \in Builds
  /\ globalKeys = {}
  /\ subscribers = <<>>
  /\ overrideReads = (IF enableUI THEN 1 ELSE 0)
  /\ ops = 0
  /\ ret = NoRet
  /\ hist = NoSnap
  /\ lastEdit = NoEdit

Init ==
  /\ InitCommon
  /\ storage \in (IF enableUI THEN StoragePool \cup BrokenStorage ELSE {EditedStorage})
  /\ baseSource \in InitialSources
  /\ moduleError = ModuleThrows(enableUI, storage)
  /\ globalTranslations = InitialTranslations(enableUI, build, storage)
  /\ keyOrder = InitialOrder(enableUI, build, storage)
  /\ translationMetadata = InitialMetadata(enableUI, storage)
  /\ globalLang = (IF moduleError THEN <<>> ELSE InitialLang(storage))
  /\ procs = [p \in ProcIds |->
               IF p = 0 /\ ~moduleError THEN StartedProc(FALSE) ELSE IdleProc]

(***************************************************************************)
(* loadProductionTranslations, one step per suspension.                    *)
(***************************************************************************)
\* the continuation of initializeTranslations is about to run: it follows
\* the end of the startup load without any other task in between
GcPending == procs[0].st = "gc"

\* a loop body that empties the language's tree when the fetch fails
MergeResponse_ClearsOnFailure(ui, gt, lang, resp) ==
  IF resp.kind = "ok"
  THEN MapSet(gt, lang, IF ui THEN ShallowMerge(resp.body, TreeOf(gt, lang)) ELSE resp.body)
  ELSE MapSet(gt, lang, EmptyObj)

\* the body of the inner try for one language, given the fetch's outcome
MergeResponse(ui, gt, lang, resp) ==
  IF resp.kind = "ok"
  THEN MapSet(gt, lang, IF ui THEN ShallowMerge(resp.body, TreeOf(gt, lang)) ELSE resp.body)
  ELSE gt

\* Object.keys(globalTranslations) after the loop body has run for lang
MergeOrder(order, lang, resp) == IF resp.kind = "ok" THEN OrderWith(order, lang) ELSE order

\* the for loop goes on to the next language whatever the outcome was
NextIndex(i, resp) == i + 1

\* a notification inside the loop, once per language
NotifiesAfter_EachLanguage(i) == 1

\* notifySubscribers is called after the loop, not inside it
NotifiesAfter(i) == IF i = Len(LanguagesToTry) THEN 1 ELSE 0

\* the pending fetch settles with what the base source serves now, the loop
\* body runs for it and the next fetch is issued
LoadResumeNext(p) ==
  /\ ~moduleError
  /\ ~GcPending
  /\ procs[p].st = "pending"
  /\ procs[p].i < Len(LanguagesToTry)
  /\ LET lang == LanguagesToTry[procs[p].i]
         resp == baseSource[lang]
     IN /\ globalTranslations' = MergeResponse(enableUI, globalTranslations, lang, resp)
        /\ keyOrder' = MergeOrder(keyOrder, lang, resp)
        /\ procs' = [procs EXCEPT ![p].i = NextIndex(procs[p].i, resp),
                                  ![p].notifs = @ + NotifiesAfter(procs[p].i)]
  /\ ret' = NoRet
  /\ UNCHANGED <<lastEdit, enableUI, build, moduleError, translationMetadata, globalLang, globalKeys, subscribers,
                 storage, baseSource, overrideReads, ops, hist>>

\* the fetch of the last language settles, the loop body runs for it, the
\* subscribers are notified and the call returns
LoadResumeLast(p) ==
  /\ ~moduleError
  /\ ~GcPending
  /\ procs[p].st = "pending"
  /\ procs[p].i >= Len(LanguagesToTry)
  /\ LET lang == LanguagesToTry[procs[p].i]
         resp == baseSource[lang]
         gt == MergeResponse(enableUI, globalTranslations, lang, resp)
         cleanup == p = 0 /\ build = "magic-translate"
     IN /\ globalTranslations' = gt
        /\ keyOrder' = MergeOrder(keyOrder, lang, resp)
        /\ procs' = [procs EXCEPT ![p].st = IF cleanup THEN "gc" ELSE "done",
                                  ![p].notifs = @ + NotifiesAfter(procs[p].i)]
        /\ hist' = IF cleanup THEN hist ELSE Snap(gt, translationMetadata)
  /\ ret' = NoRet
  /\ lastEdit' = (IF p = 0 /\ build = "magic-translate" THEN lastEdit
                  ELSE EditLoaded(lastEdit))
  /\ UNCHANGED <<enableUI, build, moduleError, translationMetadata, globalLang, globalKeys, subscribers,
                 storage, baseSource, overrideReads, ops>>

(***************************************************************************)
(* initializeTranslations after its await: the cleanup of the languages    *)
(* that have no keys.                                                      *)
(***************************************************************************)
\* a filter that takes every language of the store as loaded
LoadedLanguages_All(gt) == DOMAIN gt

\* Object.keys(globalTranslations).filter(lang => Object.keys(... || {}).length > 0)
LoadedLanguages(gt) == {l \in DOMAIN gt : OwnKeys(gt[l]) # {}}

LanguagesToRemove(gt) == DOMAIN gt \ LoadedLanguages(gt)

\* localStorage after both items have been written
WriteItems(st, gt, md, order) ==
  [st EXCEPT !.translations = JsonItem(JsonCopyAll(gt)), !.metadata = JsonItem(md),
             !.order = order]

InitializeCleanup ==
  /\ ~moduleError
  /\ GcPending
  /\ LET gone == LanguagesToRemove(globalTranslations)
         gt == [l \in DOMAIN globalTranslations \ gone |-> globalTranslations[l]]
         md == [l \in DOMAIN translationMetadata \ gone |-> translationMetadata[l]]
         order == OrderWithout(keyOrder, gone)
     IN /\ globalTranslations' = gt
        /\ keyOrder' = order
        /\ translationMetadata' = md
        /\ storage' = IF gone # {} /\ enableUI THEN WriteItems(storage, gt, md, order)
                                                ELSE storage
        /\ hist' = Snap(gt, md)
  /\ procs' = [procs EXCEPT ![0].st = "done"]
  /\ ret' = NoRet
  /\ lastEdit' = EditLoaded(lastEdit)
  /\ UNCHANGED <<enableUI, build, moduleError, globalLang, globalKeys, subscribers, baseSource,
                 overrideReads, ops>>

(***************************************************************************)
(* The operations of the public API and of the editor.                     *)
(***************************************************************************)
\* saveToStorage
SaveToStorage(ui, st, gt, md, order) == IF ~ui THEN st ELSE WriteItems(st, gt, md, order)

\* notifySubscribers: the callbacks that forEach calls, in their order, and
\* the store, the metadata and the active language as they are at that time
notifySubscribers(subs, gt, md, lang) == [to |-> subs, t |-> gt, m |-> md, lang |-> lang]

\* a registry that does not take the key
RegisterKey_None(keys, key) == keys

\* globalKeys.add(key)
RegisterKey(keys, key) == keys \cup {key}

\* an internalT that writes its fallback text into the tree on a miss
StoreAfterT_FillsMiss(gt, lang, key) ==
  IF Walk(TreeOf(gt, lang), Split(key)).t = "undef"
  THEN MapSet(gt, lang, Obj(MapSet(SpreadOf(TreeOf(gt, lang)), Head(Split(key)),
                                   Str(TodoText(key)))))
  ELSE gt

\* globalTranslations after internalT(key): the walk only reads
StoreAfterT(gt, lang, key) == gt

\* t(key, vars): enhancedT calls internalT; the key is registered first.
\* A call of t is a read of the application and is not counted as a user
\* operation.
Resolve(key, v) ==
  /\ ~moduleError
  /\ ~GcPending
  /\ globalKeys' = RegisterKey(globalKeys, key)
  /\ globalTranslations' = StoreAfterT(globalTranslations, globalLang, key)
  /\ ret' = [op |-> "t", key |-> key, vars |-> v,
             result |-> internalT(TreeOf(globalTranslations, globalLang), key, v)]
  /\ UNCHANGED <<lastEdit, enableUI, build, moduleError, keyOrder, translationMetadata, globalLang, subscribers,
                 storage, baseSource, procs, overrideReads, ops, hist>>

\* the merge of the persisted trees in setCurrentLang
MergeStored(gt, stored) ==
  [l \in DOMAIN gt \cup DOMAIN stored |->
    IF l \in DOMAIN stored THEN ShallowMerge(TreeOf(gt, l), stored[l]) ELSE gt[l]]

\* a setCurrentLang that reads the persisted trees in both modes
ReadsStored_Always(ui) == TRUE

\* does setCurrentLang read the persisted trees
ReadsStored(ui) == ui

\* a setCurrentLang without its call of notifySubscribers
SwitchNotifications_None(subs, gt, md, lang) == <<>>

\* the call of notifySubscribers at the end of setCurrentLang
SwitchNotifications(subs, gt, md, lang) == <<notifySubscribers(subs, gt, md, lang)>>

\* the invocation of loadProductionTranslations that a call made now gets
FreeProcs ==
  {p \in ProcIds : procs[p].st = "unused" /\ \A q \in ProcIds : q < p => procs[q].st # "unused"}

\* loadProductionTranslations() is called: it runs up to its first await
StartLoad(p) ==
  [procs EXCEPT ![p] =
     StartedProc(hist.has /\ \A q \in ProcIds \ {p} : procs[q].st \in {"unused", "done"})]

\* what setCurrentLang(lang) makes of the store gt with the key order order
\* after it has called loadProductionTranslations: the merge of the
\* persisted trees and the notification, or the SyntaxError of JSON.parse
SwitchTo(lang, gt, order) ==
  LET reads == ReadsStored(enableUI)
      threw == reads /\ ParseThrows(storage.translations)
      gt2 == IF reads /\ ~threw THEN MergeStored(gt, ParseItem(storage.translations)) ELSE gt
  IN [gt |-> gt2,
      order |-> IF reads /\ ~threw THEN OrderWithAll(order, storage.order) ELSE order,
      reads |-> IF reads THEN 1 ELSE 0,
      threw |-> threw,
      notified |-> IF threw THEN <<>>
                   ELSE SwitchNotifications(subscribers, gt2, translationMetadata, lang)]

\* setCurrentLang(lang)
SetCurrentLang(lang) ==
  /\ ~moduleError
  /\ ~GcPending
  /\ FreeProcs # {}
  /\ LET p == CHOOSE q \in FreeProcs : TRUE
         sw == SwitchTo(lang, globalTranslations, keyOrder)
     IN /\ procs' = StartLoad(p)
        /\ globalTranslations' = sw.gt
        /\ keyOrder' = sw.order
        /\ overrideReads' = overrideReads + sw.reads
        /\ ret' = [op |-> "setCurrentLang", lang |-> lang, proc |-> p, threw |-> sw.threw,
                   notified |-> sw.notified]
  /\ globalLang' = lang
  /\ storage' = [storage EXCEPT !.lang = lang]
  /\ UNCHANGED <<lastEdit, enableUI, build, moduleError, translationMetadata, globalKeys, subscribers,
                 baseSource, ops, hist>>

\* the assignments of saveEdit along the segments of the key, starting at
\* the object cur; threw tells that an assignment hit a primitive (the
\* module is an ES module, hence strict)
RECURSIVE AssignPath(_, _, _)
AssignPath(cur, keys, value) ==
  IF Len(keys) = 1
  THEN [threw |-> FALSE, node |-> Obj(MapSet(cur.m, Head(keys), Str(value)))]
  ELSE LET old == GetProperty(cur, Head(keys))
           child == IF Truthy(old) THEN old ELSE EmptyObj
       IN IF child.t = "obj"
          THEN LET r == AssignPath(child, Tail(keys), value) IN
                 [threw |-> r.threw, node |-> Obj(MapSet(cur.m, Head(keys), r.node))]
          ELSE IF child.t = "fn"
               THEN [threw |-> FALSE, node |-> Obj(MapSet(cur.m, Head(keys), child))]
               ELSE [threw |-> TRUE, node |-> cur]

\* updateTranslationMetadata(key, lang, value)
updateTranslationMetadata(md, key, lang, value) ==
  LET old == IF lang \in DOMAIN md THEN md[lang] ELSE EmptyMap IN
    MapSet(md, lang,
           MapSet(old, key, [characterCount |-> Len(value), status |-> StatusOf(value)]))

\* saveEdit with editingKey = key and editValue = value
SaveEdit(key, value) ==
  /\ ~moduleError
  /\ ~GcPending
  /\ ops < MaxOps
  /\ ops' = ops + 1
  /\ key # <<>>
  /\ LET tree == TreeOf(globalTranslations, globalLang)
         root == IF Truthy(tree) THEN tree ELSE EmptyObj
         r == AssignPath(root, Split(key), value)
         gt == MapSet(globalTranslations, globalLang, r.node)
         md == updateTranslationMetadata(translationMetadata, key, globalLang, value)
         order == OrderWith(keyOrder, globalLang)
     IN /\ keyOrder' = order
        /\ IF r.threw
           THEN /\ globalTranslations' = MapSet(globalTranslations, globalLang, root)
                /\ UNCHANGED <<translationMetadata, storage>>
                /\ ret' = [op |-> "edit", key |-> key, value |-> value, threw |-> TRUE,
                           notified |-> <<>>]
           ELSE /\ globalTranslations' = gt
                /\ translationMetadata' = md
                /\ storage' = SaveToStorage(enableUI, storage, gt, md, order)
                /\ ret' = [op |-> "edit", key |-> key, value |-> value, threw |-> FALSE,
                           notified |-> <<notifySubscribers(subscribers, gt, md, globalLang)>>]
  /\ hist' = NoSnap
  /\ lastEdit' = [has |-> TRUE, lang |-> globalLang, key |-> key, value |-> value,
                  threw |-> AssignPath(IF Truthy(TreeOf(globalTranslations, globalLang))
                                       THEN TreeOf(globalTranslations, globalLang)
                                       ELSE EmptyObj, Split(key), value).threw,
                  loaded |-> FALSE]
  /\ UNCHANGED <<enableUI, build, moduleError, globalLang, globalKeys, subscribers, baseSource, procs,
                 overrideReads>>

\* addLanguage with newLang = code
AddLanguage(code) ==
  /\ ~moduleError
  /\ ~GcPending
  /\ ops < MaxOps
  /\ ops' = ops + 1
  /\ IF Trim(code) # <<>>
     THEN LET gt == MapSet(globalTranslations, ToLowerCase(code), EmptyObj)
              order == OrderWith(keyOrder, ToLowerCase(code))
          IN /\ globalTranslations' = gt
             /\ keyOrder' = order
             /\ storage' = SaveToStorage(enableUI, storage, gt, translationMetadata, order)
             /\ hist' = NoSnap
             /\ ret' = [op |-> "addLanguage", code |-> code,
                        notified |-> <<notifySubscribers(subscribers, gt, translationMetadata,
                                                         globalLang)>>]
     ELSE /\ UNCHANGED <<globalTranslations, keyOrder, storage, hist>>
          /\ ret' = [op |-> "addLanguage", code |-> code, notified |-> <<>>]
  /\ UNCHANGED <<lastEdit, enableUI, build, moduleError, translationMetadata, globalLang, globalKeys, subscribers,
                 baseSource, procs, overrideReads>>

\* a removeLanguage that switches to the last remaining language
FirstRemaining_Last(order) == order[Len(order)]

\* remainingLanguages[0]
FirstRemaining(order) == order[1]

\* a removeLanguage that refuses only when the store is empty
RefusesRemoval_OnlyEmpty(gt) == Cardinality(DOMAIN gt) < 1

\* Object.keys(globalTranslations).length <= 1
RefusesRemoval(gt) == Cardinality(DOMAIN gt) <= 1

\* removeLanguage(code) of the variant with the language manager; confirmed
\* is the answer to confirm()
RemoveLanguage(code, confirmed) ==
  /\ build = "part_000"
  /\ ~moduleError
  /\ ~GcPending
  /\ ops < MaxOps
  /\ ops' = ops + 1
  /\ IF RefusesRemoval(globalTranslations) \/ ~confirmed
     THEN /\ ret' = [op |-> "removeLanguage", code |-> code,
                     refused |-> RefusesRemoval(globalTranslations),
                     confirmed |-> confirmed, threw |-> FALSE, notified |-> <<>>]
          /\ UNCHANGED <<globalTranslations, keyOrder, globalLang, storage, procs,
                         overrideReads, hist>>
     ELSE LET gt1 == [l \in DOMAIN globalTranslations \ {code} |-> globalTranslations[l]]
              order1 == OrderWithout(keyOrder, {code})
              switches == globalLang = code /\ Len(order1) > 0
              lang == IF switches THEN FirstRemaining(order1) ELSE globalLang
              sw == SwitchTo(lang, gt1, order1)
              threw == switches /\ sw.threw
              gt == IF switches THEN sw.gt ELSE gt1
              order == IF switches THEN sw.order ELSE order1
              st == IF switches THEN [storage EXCEPT !.lang = lang] ELSE storage
          IN /\ switches => FreeProcs # {}
             /\ procs' = IF switches THEN StartLoad(CHOOSE q \in FreeProcs : TRUE) ELSE procs
             /\ overrideReads' = overrideReads + (IF switches THEN sw.reads ELSE 0)
             /\ globalLang' = lang
             /\ globalTranslations' = gt
             /\ keyOrder' = order
             /\ storage' = IF threw THEN st
                            ELSE SaveToStorage(enableUI, st, gt, translationMetadata, order)
             /\ hist' = NoSnap
             /\ ret' = [op |-> "removeLanguage", code |-> code, refused |-> FALSE,
                        confirmed |-> TRUE, threw |-> threw,
                        notified |-> IF threw THEN <<>>
                                     ELSE (IF switches THEN sw.notified ELSE <<>>)
                                            \o <<notifySubscribers(subscribers, gt,
                                                                   translationMetadata, lang)>>]
  /\ lastEdit' = (IF lastEdit.has /\ code \notin DOMAIN globalTranslations'
                     /\ lastEdit.lang = code
                  THEN NoEdit ELSE lastEdit)
  /\ UNCHANGED <<enableUI, build, moduleError, translationMetadata, globalKeys, subscribers, baseSource>>

\* a subscriber list that takes a callback each time it is added
SetAdd_Push(subs, callback) == Append(subs, callback)

\* Set.prototype.add: a callback that is in the set already is not added
SetAdd(subs, callback) ==
  IF \E i \in 1..Len(subs) : subs[i] = callback THEN subs ELSE Append(subs, callback)

\* Set.prototype.delete
SetDelete(subs, callback) == OrderWithout(subs, {callback})

\* subscribeToLanguageChange(callback)
Subscribe(callback) ==
  /\ ~moduleError
  /\ ~GcPending
  /\ subscribers' = SetAdd(subscribers, callback)
  /\ ret' = [op |-> "subscribe", callback |-> callback]
  /\ UNCHANGED <<lastEdit, enableUI, build, moduleError, globalTranslations, keyOrder, translationMetadata,
                 globalLang, globalKeys, storage, baseSource, procs, overrideReads, ops, hist>>

\* unsubscribeFromLanguageChange(callback)
Unsubscribe(callback) ==
  /\ ~moduleError
  /\ ~GcPending
  /\ subscribers' = SetDelete(subscribers, callback)
  /\ ret' = [op |-> "unsubscribe", callback |-> callback]
  /\ UNCHANGED <<lastEdit, enableUI, build, moduleError, globalTranslations, keyOrder, translationMetadata,
                 globalLang, globalKeys, storage, baseSource, procs, overrideReads, ops, hist>>

\* the item magic-translations is overwritten with a text that is no JSON
\* (in override-disabled mode the item is never read, and a change of it is
\* not followed)
StorageChange ==
  /\ ~moduleError
  /\ ~GcPending
  /\ enableUI
  /\ ops = 0
  /\ storage.translations # BadItem
  /\ storage' = [storage EXCEPT !.translations = BadItem, !.order = <<>>]
  /\ ret' = NoRet
  /\ hist' = NoSnap
  /\ UNCHANGED <<lastEdit, enableUI, build, moduleError, globalTranslations, keyOrder,
                 translationMetadata, globalLang, globalKeys, subscribers, baseSource,
                 procs, overrideReads, ops>>

\* the document served for a language changes (a deployment, an outage)
BaseChange(lang, resp) ==
  /\ ~moduleError
  /\ ~GcPending
  /\ ops < MaxOps
  /\ ops' = ops + 1
  /\ baseSource[lang] # resp
  /\ baseSource' = [baseSource EXCEPT ![lang] = resp]
  /\ hist' = NoSnap
  /\ ret' = NoRet
  /\ UNCHANGED <<lastEdit, enableUI, build, moduleError, globalTranslations, keyOrder, translationMetadata,
                 globalLang, globalKeys, subscribers, storage, procs, overrideReads>>

Next ==
  \/ \E p \in ProcIds : LoadResumeNext(p)
  \/ \E p \in ProcIds : LoadResumeLast(p)
  \/ InitializeCleanup
  \/ \E key \in AppKeys : Resolve(key, NoVars)
  \/ \E lang \in SwitchLangs : SetCurrentLang(lang)
  \/ \E key \in EditKeys, value \in EditValues : SaveEdit(key, value)
  \/ \E code \in NewLangInputs : AddLanguage(code)
  \/ \E code \in RemovedLangs, confirmed \in BOOLEAN : RemoveLanguage(code, confirmed)
  \/ \E callback \in Callbacks : Subscribe(callback)
  \/ \E callback \in Callbacks : Unsubscribe(callback)
  \/ StorageChange
  \/ \E lang \in DOMAIN baseSource, resp \in ChangedResponses : BaseChange(lang, resp)

Spec == Init /\ [][Next]_vars

(***************************************************************************)
(* The resolver alone: a store that the startup load has filled from a     *)
(* document for en, and calls of t on it.                                  *)
(***************************************************************************)
LeafPool ==
  {Str(<<>>), Str(sHi), Str(sGreet), Str(sOne), Str(sMany), Str(sTriple), Str(sOpen),
   Str(sCtor), Num(<<"0">>), Null}

\* documents with every kind of node at a and at a.b
ResolveDocs ==
  {EmptyObj} \cup {Obj(kA :> x) : x \in LeafPool \cup {EmptyObj}}
             \cup {Obj(kA :> Obj(kB :> x)) : x \in LeafPool}

InitResolve ==
  /\ InitCommon
  /\ moduleError = FALSE
  /\ build = "magic-translate"
  /\ storage = [translations |-> NoItem, metadata |-> NoItem, lang |-> <<>>, order |-> <<>>]
  /\ translationMetadata = EmptyMap
  /\ globalLang = en
  /\ procs = [p \in ProcIds |->
               IF p = 0 THEN [st |-> "done", i |-> Len(LanguagesToTry), notifs |-> 1,
                              succ |-> FALSE]
               ELSE IdleProc]
  /\ \/ /\ globalTranslations = EmptyMap
        /\ baseSource = [l \in {LanguagesToTry[i] : i \in 1..Len(LanguagesToTry)} |->
                           [kind |-> "notok"]]
     \/ \E d \in ResolveDocs \ {EmptyObj} :
          /\ globalTranslations = (en :> d)
          /\ baseSource = [l \in {LanguagesToTry[i] : i \in 1..Len(LanguagesToTry)} |->
                             IF l = en THEN RespOk(d) ELSE [kind |-> "notok"]]
  /\ keyOrder = (IF en \in DOMAIN globalTranslations THEN <<en>> ELSE <<>>)

NextResolve == \E key \in ResolveKeys, v \in VarMaps : Resolve(key, v)

SpecResolve == InitResolve /\ [][NextResolve]_vars

(***************************************************************************)
(* The status rules alone: a store with one language whose tree holds a    *)
(* value at a, the editor that is opened on a key and saved, and the       *)
(* status that the key list asks for.                                      *)
(***************************************************************************)
MaxPieces == 3       \* how many pieces a value of the status rules is made of

StatusPieces ==
  {<<>>, <<" ">>, <<"\t">>, <<"x">>, <<"[">>, <<"]">>, <<"T", "O", "D", "O">>, TodoMarker}

RECURSIVE Concat(_)
Concat(ps) == IF ps = <<>> THEN <<>> ELSE Head(ps) \o Concat(Tail(ps))

StatusValues == {Concat(ps) : ps \in [1..MaxPieces -> StatusPieces]}
StatusKeys == {kA, kB}

\* getTranslationStatus(key); the component's currentLang follows globalLang
GetTranslationStatus(key) ==
  LET value == GetValue(IF Truthy(TreeOf(globalTranslations, globalLang))
                        THEN TreeOf(globalTranslations, globalLang) ELSE EmptyObj,
                        Split(key))
      metadata == IF globalLang \in DOMAIN translationMetadata
                     /\ key \in DOMAIN translationMetadata[globalLang]
                  THEN translationMetadata[globalLang][key]
                  ELSE Undefined
  IN /\ ~GcPending
     /\ ret' = [op |-> "status", key |-> key, stored |-> metadata # Undefined,
                result |-> IF metadata # Undefined THEN metadata
                           ELSE [characterCount |-> IF Truthy(value) THEN Len(JsToString(value))
                                                                     ELSE 0,
                                 status |-> DerivedStatus(value)]]
     /\ UNCHANGED <<lastEdit, enableUI, build, moduleError, globalTranslations, keyOrder, translationMetadata,
                    globalLang, globalKeys, subscribers, storage, baseSource, procs,
                    overrideReads, ops, hist>>

\* startEdit(key) and saveEdit: the editor is opened with value || '' and
\* saved as it is
SaveUnchanged(key) ==
  LET value == GetValue(IF Truthy(TreeOf(globalTranslations, globalLang))
                        THEN TreeOf(globalTranslations, globalLang) ELSE EmptyObj,
                        Split(key))
  IN /\ value.t \in {"str", "undef"}
     /\ SaveEdit(key, IF Truthy(value) THEN value.s ELSE <<>>)

InitStatus ==
  /\ InitCommon
  /\ moduleError = FALSE
  /\ build = "magic-translate"
  /\ storage = [translations |-> NoItem, metadata |-> NoItem, lang |-> <<>>, order |-> <<>>]
  /\ translationMetadata = EmptyMap
  /\ globalLang = en
  /\ keyOrder = <<en>>
  /\ procs = [p \in ProcIds |->
               IF p = 0 THEN [st |-> "done", i |-> Len(LanguagesToTry), notifs |-> 1,
                              succ |-> FALSE]
               ELSE IdleProc]
  /\ \E v \in StatusValues :
       /\ globalTranslations = (en :> Obj(kA :> Str(v)))
       /\ baseSource = [l \in {LanguagesToTry[i] : i \in 1..Len(LanguagesToTry)} |->
                          IF l = en THEN RespOk(Obj(kA :> Str(v))) ELSE [kind |-> "notok"]]

NextStatus ==
  \/ \E key \in StatusKeys : GetTranslationStatus(key)
  \/ \E key \in StatusKeys : SaveUnchanged(key)

SpecStatus == InitStatus /\ [][NextStatus]_vars

(***************************************************************************)
(* Notions of the claims.                                                  *)
(***************************************************************************)
\* the node of a tree at a path of segments, Undefined when the path leaves
\* the tree: a segment that is no entry of a Branch, or a node on the way
\* that is no Branch
RECURSIVE NodeAt(_, _)
NodeAt(v, segs) ==
  IF segs = <<>> THEN v
  ELSE IF v.t = "obj" /\ Head(segs) \in DOMAIN v.m
       THEN NodeAt(v.m[Head(segs)], Tail(segs))
       ELSE Undefined

\* the node that the key of the last call of t names in the active language
CalledNode == NodeAt(TreeOf(globalTranslations, globalLang), Split(ret.key))

Called == ret.op = "t"

\* {{name}}
Placeholder(name) == <<"{", "{">> \o name \o <<"}", "}">>

OccursAt(s, i, sub) == i + Len(sub) - 1 <= Len(s) /\ SubSeq(s, i, i + Len(sub) - 1) = sub

\* s with every {{name}}, name a key of v, replaced by the string of v[name]
RECURSIVE ExpectedFrom(_, _, _)
ExpectedFrom(s, i, v) ==
  IF i > Len(s) THEN <<>>
  ELSE IF \E n \in DOMAIN v : OccursAt(s, i, Placeholder(n))
       THEN LET n == CHOOSE n \in DOMAIN v : OccursAt(s, i, Placeholder(n)) IN
              v[n].s \o ExpectedFrom(s, i + Len(Placeholder(n)), v)
       ELSE <<s[i]>> \o ExpectedFrom(s, i + 1, v)

(***************************************************************************)
(* C1: a key whose node is a Leaf string s, resolved without vars, gives   *)
(* exactly s, the empty string included.                                   *)
(***************************************************************************)
C1_LeafReturnedUnchanged ==
  (Called /\ ret.vars = NoVars /\ CalledNode.t = "str") => ret.result = CalledNode.s

\* C1 as amended: a key whose node is a non-empty Leaf string s, resolved
\* without vars, gives exactly s; when the Leaf is the empty string the
\* result is the fallback TODO: Translate "<key>".
C1_NonEmptyLeafReturnedUnchanged ==
  (Called /\ ret.vars = NoVars /\ CalledNode.t = "str") =>
    ret.result = (IF CalledNode.s # <<>> THEN CalledNode.s ELSE TodoText(ret.key))

C1_Witness ==
  /\ Called /\ ret.vars = NoVars /\ ret.key = kAB
  /\ CalledNode = Str(sGreet)
  /\ ret.result = sGreet

(***************************************************************************)
(* C2: a key that is absent from the tree of the active language (missing  *)
(* segment, descent through a node that is no Branch, no tree at all)      *)
(* resolves to TODO: Translate "<key>" and is in the registry afterwards.  *)
(***************************************************************************)
C2_AbsentKeyGivesTodo ==
  (Called /\ CalledNode.t = "undef") =>
    (ret.result = TodoText(ret.key) /\ ret.key \in globalKeys)

(***************************************************************************)
(* C3: a key whose full path ends at a Branch resolves to [Object: <key>], *)
(* and whatever the tree, key and vars, the result is a string.            *)
(***************************************************************************)
C3_BranchGivesObjectText ==
  Called =>
    /\ CalledNode.t = "obj" => ret.result = ObjectText(ret.key)
    /\ DOMAIN ret.result = 1..Len(ret.result)
    /\ \A i \in DOMAIN ret.result : ret.result[i] \in STRING

C3_Witness ==
  /\ Called /\ ret.key = kA
  /\ CalledNode = Obj(kB :> Str(sHi))
  /\ ret.result = <<"[", "O", "b", "j", "e", "c", "t", ":", " ", "a", "]">>

(***************************************************************************)
(* C4: with a non-empty variable map v, every {{name}} whose name is a key *)
(* of v is replaced by the string form of v[name], whatever that value is, *)
(* and every other {{name}} is left as it is.                              *)
(***************************************************************************)
C4_InterpolationReplacesKeysOnly ==
  (Called /\ ret.vars # NoVars /\ CalledNode.t = "str") =>
    ret.result = ExpectedFrom(CalledNode.s, 1, ret.vars)

(***************************************************************************)
(* Notions of the claims about loadProductionTranslations.                 *)
(***************************************************************************)
\* this step is the settling of a fetch of the invocation p
Settles(p) == procs[p].st = "pending" /\ procs'[p] # procs[p]

\* the language and the response of the fetch that p is waiting for
PendingLang(p) == LanguagesToTry[procs[p].i]
PendingResp(p) == baseSource[PendingLang(p)]

\* the invocation p returns in this step (for the startup call of
\* magic-translate.tsx: initializeTranslations returns)
Finishes(p) == procs[p].st # "done" /\ procs'[p].st = "done"

\* no language of the store or of the metadata is without keys
NoUnloadedLanguage(gt, md) ==
  \A l \in DOMAIN gt \cup DOMAIN md : l \in DOMAIN gt /\ OwnKeys(gt[l]) # {}

C6_DisabledModeUsesBaseOnly ==
  /\ [](~enableUI => overrideReads = 0)
  /\ [][\A p \in ProcIds :
          (~enableUI /\ Settles(p) /\ PendingResp(p).kind = "ok") =>
            TreeOf(globalTranslations', PendingLang(p)) = PendingResp(p).body]_vars

\* persisted trees exist, a language has been switched to, en is the document
C6_Witness ==
  /\ ~enableUI
  /\ storage.translations.k = "json"
  /\ procs[1].st # "unused"
  /\ procs[0].st = "done"
  /\ baseSource[en] = RespOk(DocA)
  /\ TreeOf(globalTranslations, en) = DocA

C8_ReconcileIdempotent ==
  [][\A p \in ProcIds :
       (Finishes(p) /\ procs[p].succ /\ hist.has) =>
         (globalTranslations' = hist.t /\ translationMetadata' = hist.m)]_vars

(***************************************************************************)
(* C9: a fetch that fails, is answered with a response that is not ok or   *)
(* with a body that does not parse leaves every tree as it is, and the     *)
(* invocation goes on to fetch the next language.                          *)
(***************************************************************************)
C9_FailedFetchSkipsLanguage ==
  [][\A p \in ProcIds :
       (Settles(p) /\ PendingResp(p).kind # "ok") =>
         /\ globalTranslations' = globalTranslations
         /\ translationMetadata' = translationMetadata
         /\ procs[p].i < Len(LanguagesToTry) =>
              (procs'[p].st = "pending" /\ procs'[p].i = procs[p].i + 1)]_vars

\* en was answered with an unparsable body and has no tree, fr was merged
C9_Witness ==
  /\ enableUI
  /\ storage.translations = NoItem
  /\ baseSource[en].kind = "badjson"
  /\ procs[0].st \in {"gc", "done"}
  /\ en \notin DOMAIN globalTranslations
  /\ TreeOf(globalTranslations, fr) = DocA

(***************************************************************************)
(* C10: an invocation of loadProductionTranslations notifies the           *)
(* subscribers once, after its last fetch has settled and not before, also *)
(* when every fetch fails.                                                 *)
(***************************************************************************)
C10_OneNotificationPerReconcile ==
  \A p \in ProcIds :
    procs[p].notifs = (IF procs[p].st \in {"gc", "done"} THEN 1 ELSE 0)

\* an invocation has returned with all fetches failed and nothing loaded
C10_Witness ==
  /\ enableUI
  /\ storage.translations = NoItem
  /\ \A l \in DOMAIN baseSource : baseSource[l].kind # "ok"
  /\ procs[1].st = "done"
  /\ procs[1].notifs = 1
  /\ globalTranslations = EmptyMap

(***************************************************************************)
(* Notions of the claims about the operations.                             *)
(***************************************************************************)
\* the invocation p has merged the response of its fetch for lang
FetchSettled(p, lang) ==
  \/ procs[p].st \in {"gc", "done"}
  \/ \E i \in 1..(procs[p].i - 1) : LanguagesToTry[i] = lang

\* the top-level keys that the persisted trees hold for lang
OverrideKeys(lang) ==
  IF enableUI /\ lang \in DOMAIN ParseItem(storage.translations)
  THEN OwnKeys(ParseItem(storage.translations)[lang])
  ELSE {}

(***************************************************************************)
(* C11: setCurrentLang(code) starts a fresh invocation of                  *)
(* loadProductionTranslations, and the subscribers are notified of the     *)
(* switch only after that invocation's fetch for code has settled and been *)
(* merged, not before.                                                     *)
(***************************************************************************)
C11_NotifiedOnlyAfterFetchSettles ==
  ret.op = "setCurrentLang" =>
    /\ procs[ret.proc].st # "unused"
    /\ ret.notified # <<>> => FetchSettled(ret.proc, ret.lang)

\* C11 as amended: setCurrentLang(code) starts a fresh invocation of
\* loadProductionTranslations and, unless its read of the persisted trees
\* throws, notifies the subscribers once before it returns, when no fetch
\* of that invocation has settled; when the read throws it notifies nobody.
\* In both cases the invocation notifies the subscribers once after its
\* last fetch has settled, and so after its fetch for code has been merged.
C11_SwitchNotifiesAtOnceAndAfterLoad ==
  /\ ret.op = "setCurrentLang" =>
       /\ procs[ret.proc] = [procs[ret.proc] EXCEPT !.st = "pending", !.i = 1, !.notifs = 0]
       /\ ~FetchSettled(ret.proc, ret.lang)
       /\ ret.threw => ret.notified = <<>>
       /\ ~ret.threw =>
            /\ Len(ret.notified) = 1
            /\ ret.notified[1] =
                 notifySubscribers(subscribers, globalTranslations, translationMetadata,
                                   ret.lang)
       /\ globalLang = ret.lang
  /\ \A p \in ProcIds \ {0} :
       /\ procs[p].notifs = 1 <=> procs[p].st = "done"
       /\ procs[p].notifs = 0 <=> procs[p].st # "done"

\* two subscribers have been told of the switch to fr while the fetches of
\* the new invocation are pending
C11_Witness ==
  /\ ret.op = "setCurrentLang"
  /\ ret.lang = fr
  /\ Len(subscribers) = 2
  /\ {ret.notified[1].to[i] : i \in 1..2} = Callbacks
  /\ procs[1].st = "pending"
  /\ procs[1].i = 1

(***************************************************************************)
(* C12: when two invocations of loadProductionTranslations are in flight   *)
(* at the same time, the response for a language that resolves last        *)
(* overwrites the language's tree: once it is merged, the content of the   *)
(* tree that comes from the base source is that of this response,          *)
(* whichever invocation issued the fetch.                                  *)
(***************************************************************************)
C12_LastResponseOverwrites ==
  [][\A p \in ProcIds :
       (/\ Settles(p)
        /\ PendingResp(p).kind = "ok"
        /\ \E q \in ProcIds \ {p} : procs[q].st = "pending" /\ procs[q].i > procs[p].i) =>
         LET body == PendingResp(p).body
             new == TreeOf(globalTranslations', PendingLang(p))
         IN /\ new.t = "obj"
            /\ \A k \in OwnKeys(body) \ OverrideKeys(PendingLang(p)) :
                 k \in DOMAIN new.m /\ new.m[k] = body.m[k]
            /\ \A k \in DOMAIN new.m \ OverrideKeys(PendingLang(p)) : k \in OwnKeys(body)]_vars

(***************************************************************************)
(* Notions of the claims about the status.                                 *)
(***************************************************************************)
\* the status of the specification for a value: absent tells that there is
\* no value, s is its text otherwise
Classify(absent, s) ==
  IF absent \/ \A i \in 1..Len(s) : s[i] \in Whitespace THEN "missing"
  ELSE IF \/ \E i \in 1..(Len(s) - 4) :
               /\ s[i] = "T" /\ s[i + 1] = "O" /\ s[i + 2] = "D"
               /\ s[i + 3] = "O" /\ s[i + 4] = ":"
          \/ \E i, j \in 1..Len(s) : s[i] = "[" /\ s[j] = "]"
       THEN "needs_review"
       ELSE "complete"

\* the node at the key of the last operation, in the active language
KeyNode == NodeAt(TreeOf(globalTranslations, globalLang), Split(ret.key))

\* the metadata entry of the key of the last operation, in the active language
HasEntry ==
  /\ globalLang \in DOMAIN translationMetadata
  /\ ret.key \in DOMAIN translationMetadata[globalLang]
Entry == translationMetadata[globalLang][ret.key]

(***************************************************************************)
(* C13: the status of a value is missing when the value is absent, empty   *)
(* or made of whitespace only, else needs_review when it contains TODO: or *)
(* both a [ and a ] in any order, else complete; the rule that records an  *)
(* edit and the rule that derives the status of a key without metadata     *)
(* give this same status for every string.                                 *)
(***************************************************************************)
C13_StatusRulesAgree ==
  /\ (ret.op = "status" /\ ~ret.stored /\ KeyNode.t \in {"str", "undef"}) =>
       ret.result.status = Classify(KeyNode.t = "undef", IF KeyNode.t = "str" THEN KeyNode.s ELSE <<>>)
  /\ (ret.op = "edit" /\ ~ret.threw) =>
       /\ HasEntry
       /\ Entry.status = Classify(FALSE, ret.value)
  /\ (ret.op = "status" /\ ret.stored /\ KeyNode.t = "str") =>
       ret.result.status = DerivedStatus(KeyNode)

\* a value with ] before [ has been recorded as needs_review, and the
\* status asked for afterwards is the recorded one
C13_Witness ==
  /\ ret.op = "status"
  /\ ret.key = kA
  /\ ret.stored
  /\ KeyNode = Str(<<"]", "x", "[">>)
  /\ ret.result.status = "needs_review"

(***************************************************************************)
(* C14: right after edit(key, v) on the active language the metadata entry *)
(* of (active language, key) exists with characterCount = length(v) and    *)
(* status = classify(v).                                                   *)
(***************************************************************************)
C14_EditRecordsMetadata ==
  ret.op = "edit" =>
    /\ HasEntry
    /\ Entry.characterCount = Len(ret.value)
    /\ Entry.status = Classify(FALSE, ret.value)

(***************************************************************************)
(* C15: edit(key, v) never fails, whatever the tree of the active language *)
(* (no tree, a Leaf at a proper prefix of key) and whatever the key;       *)
(* afterwards the node at key is the Leaf v and every proper prefix of key *)
(* is a Branch.                                                            *)
(***************************************************************************)
C15_EditNeverFails ==
  ret.op = "edit" =>
    /\ ~ret.threw
    /\ KeyNode = Str(ret.value)
    /\ \A n \in 1..(Len(Split(ret.key)) - 1) :
         NodeAt(TreeOf(globalTranslations, globalLang), SubSeq(Split(ret.key), 1, n)).t = "obj"

(***************************************************************************)
(* C16: in override-disabled mode no operation writes the persisted trees  *)
(* or the persisted metadata; in override-enabled mode every edit has      *)
(* written both when it returns.                                           *)
(***************************************************************************)
C16_PersistenceFollowsMode ==
  [][/\ ~enableUI =>
          /\ storage'.translations = storage.translations
          /\ storage'.metadata = storage.metadata
     /\ (enableUI /\ ret'.op = "edit") =>
          /\ storage'.translations = JsonItem(JsonCopyAll(globalTranslations'))
          /\ storage'.metadata = JsonItem(translationMetadata')]_vars

(***************************************************************************)
(* C17: every edit notifies all subscribers that are registered, once,     *)
(* after the tree and the metadata have been updated and before it         *)
(* returns.                                                                *)
(***************************************************************************)
C17_EditNotifiesSubscribers ==
  ret.op = "edit" =>
    /\ Len(ret.notified) = 1
    /\ ret.notified[1] =
         notifySubscribers(subscribers, globalTranslations, translationMetadata, globalLang)

(***************************************************************************)
(* Notions of the claims about the languages.                              *)
(***************************************************************************)
UpperLetters == <<"A", "B", "C", "D", "E", "F", "G", "H", "I", "J", "K", "L", "M", "N", "O", "P", "Q", "R", "S", "T", "U", "V", "W", "X", "Y", "Z">>
LowerLetters == <<"a", "b", "c", "d", "e", "f", "g", "h", "i", "j", "k", "l", "m", "n", "o", "p", "q", "r", "s", "t", "u", "v", "w", "x", "y", "z">>

\* the lower-cased code
LowerCased(code) ==
  [i \in 1..Len(code) |->
     IF \E n \in 1..Len(UpperLetters) : UpperLetters[n] = code[i]
     THEN LowerLetters[CHOOSE n \in 1..Len(UpperLetters) : UpperLetters[n] = code[i]]
     ELSE code[i]]

\* a code that is empty or made of whitespace only
Blank(code) == \A i \in 1..Len(code) : code[i] \in Whitespace

\* the persisted trees and metadata are those of the store
Persisted(st, gt, md) ==
  /\ st.translations = JsonItem(JsonCopyAll(gt))
  /\ st.metadata = JsonItem(md)

(***************************************************************************)
(* C18: addLanguage with an empty or whitespace-only code changes neither  *)
(* the store, the metadata nor the persisted state and notifies nobody;    *)
(* with any other code the store afterwards holds an empty Branch under    *)
(* the lower-cased code, the state is persisted in override-enabled mode   *)
(* and the subscribers are notified.                                       *)
(***************************************************************************)
C18_AddLanguage ==
  [][ret'.op = "addLanguage" =>
       IF Blank(ret'.code)
       THEN /\ UNCHANGED <<globalTranslations, translationMetadata, storage>>
            /\ ret'.notified = <<>>
       ELSE /\ TreeOf(globalTranslations', LowerCased(ret'.code)) = EmptyObj
            /\ enableUI => Persisted(storage', globalTranslations', translationMetadata')
            /\ Len(ret'.notified) = 1
            /\ ret'.notified[1].to = subscribers
            /\ ret'.notified[1].t = globalTranslations']_vars

\* the code IT has been added as it, persisted, and a subscriber was told
C18_Witness ==
  /\ ret.op = "addLanguage"
  /\ ret.code = <<"I", "T">>
  /\ enableUI
  /\ TreeOf(globalTranslations, it) = EmptyObj
  /\ it \in DOMAIN storage.translations.v
  /\ subscribers # <<>>
  /\ ret.notified[1].to = subscribers

(***************************************************************************)
(* C19: removeLanguage on a store that holds exactly one language refuses: *)
(* the store, the metadata, the active language and the persisted state    *)
(* are unchanged; so no call of removeLanguage takes the number of         *)
(* languages of the store from at least one to zero.                       *)
(***************************************************************************)
C19_LastLanguageStays ==
  [][ret'.op = "removeLanguage" =>
       /\ Cardinality(DOMAIN globalTranslations) = 1 =>
            UNCHANGED <<globalTranslations, translationMetadata, globalLang, storage>>
       /\ Cardinality(DOMAIN globalTranslations) >= 1 =>
            Cardinality(DOMAIN globalTranslations') >= 1]_vars

\* the removal of en, confirmed, has been refused on a store that holds en alone
C19_Witness ==
  /\ ret.op = "removeLanguage"
  /\ ret.code = en
  /\ ret.confirmed
  /\ ret.refused
  /\ DOMAIN globalTranslations = {en}
  /\ globalLang = en

(***************************************************************************)
(* C20: after a confirmed removeLanguage(code) on a store with at least    *)
(* two languages, code is absent from the store, from the metadata and (in *)
(* override-enabled mode) from the persisted trees and metadata, whether   *)
(* or not code was the active language.                                    *)
(***************************************************************************)
C20_RemovedLanguageIsGone ==
  (ret.op = "removeLanguage" /\ ret.confirmed /\ ~ret.refused) =>
    /\ ret.code \notin DOMAIN globalTranslations
    /\ ret.code \notin DOMAIN translationMetadata
    /\ enableUI =>
         /\ ret.code \notin DOMAIN ParseItem(storage.translations)
         /\ ret.code \notin DOMAIN ParseItem(storage.metadata)

(***************************************************************************)
(* C21: a removeLanguage that removes the active language while other      *)
(* languages remain makes the first remaining language, in the iteration   *)
(* order of the store, the active one, and the persisted language code     *)
(* equals it.                                                              *)
(***************************************************************************)
C21_RemovingActiveSwitchesToFirst ==
  [][(/\ ret'.op = "removeLanguage"
      /\ ret'.confirmed
      /\ ~ret'.refused
      /\ globalLang = ret'.code
      /\ \E i \in 1..Len(keyOrder) : keyOrder[i] # ret'.code) =>
       \E i \in 1..Len(keyOrder) :
         /\ keyOrder[i] # ret'.code
         /\ \A j \in 1..(i - 1) : keyOrder[j] = ret'.code
         /\ globalLang' = keyOrder[i]
         /\ storage'.lang = keyOrder[i]]_vars

\* en, the active language of a store of four, has been removed: fr is active
C21_Witness ==
  /\ ret.op = "removeLanguage"
  /\ ret.code = en
  /\ ~ret.refused
  /\ Len(ret.notified) = 2
  /\ keyOrder = <<fr, es, de>>
  /\ globalLang = fr
  /\ storage.lang = fr

(***************************************************************************)
(* C22: a notification invokes every callback that is registered at that   *)
(* moment exactly once; the registrations are a set, so a callback that    *)
(* is subscribed twice is registered once; a callback that has been        *)
(* unsubscribed is not registered and so is invoked by no later            *)
(* notification.                                                           *)
(***************************************************************************)
C22_NotifyInvokesEachRegisteredOnce ==
  /\ \A i, j \in 1..Len(subscribers) : i # j => subscribers[i] # subscribers[j]
  /\ ret.op = "subscribe" => \E i \in 1..Len(subscribers) : subscribers[i] = ret.callback
  /\ ret.op = "unsubscribe" => \A i \in 1..Len(subscribers) : subscribers[i] # ret.callback
  /\ "notified" \in DOMAIN ret =>
       \A n \in 1..Len(ret.notified) :
         /\ \A c \in Callbacks :
              Cardinality({i \in 1..Len(ret.notified[n].to) : ret.notified[n].to[i] = c}) =
                (IF \E i \in 1..Len(subscribers) : subscribers[i] = c THEN 1 ELSE 0)

\* addLanguage has notified while c2 and c1 were registered, in this order
C22_Witness ==
  /\ ret.op = "addLanguage"
  /\ subscribers = <<"c2", "c1">>
  /\ Len(ret.notified) = 1
  /\ ret.notified[1].to = <<"c2", "c1">>

(***************************************************************************)
(* C23: persisted trees or persisted metadata that are no valid JSON do    *)
(* not make the construction of the store fail, and do not make a          *)
(* setCurrentLang that reads the persisted trees again fail: no error      *)
(* leaves the module's initialisation or setCurrentLang.                   *)
(***************************************************************************)
C23_InvalidBlobFailsSoft ==
  /\ ~moduleError
  /\ "threw" \in DOMAIN ret /\ ret.op \in {"setCurrentLang", "removeLanguage"} => ~ret.threw

(***************************************************************************)
(* C24: the key registry only grows: no step of any operation, of a load   *)
(* or of the cleanup takes a key out of it, and every call of t leaves     *)
(* its key in it, whatever the key resolves to.                            *)
(***************************************************************************)
C24_RegistryOnlyGrows ==
  [][/\ globalKeys \subseteq globalKeys'
     /\ ret'.op = "t" => ret'.key \in globalKeys']_vars

\* a.b has been registered by a call of t, and an edit made later has kept it
C24_Witness ==
  /\ ret.op = "edit"
  /\ ret.key = kA
  /\ globalKeys = {kAB}

(***************************************************************************)
(* C25: every step that changes the store (the trees or the metadata) is   *)
(* followed by a notification of the subscribers made after the            *)
(* operation's last change: the operation notifies with the store as the   *)
(* step leaves it, or the step is a merge of a load that is still running  *)
(* and notifies when it ends, or the last merge of a load, which notifies. *)
(***************************************************************************)
C25_EveryChangeIsAnnounced ==
  [][(globalTranslations' # globalTranslations \/ translationMetadata' # translationMetadata) =>
       \/ /\ "notified" \in DOMAIN ret'
          /\ Len(ret'.notified) > 0
          /\ ret'.notified[Len(ret'.notified)].t = globalTranslations'
          /\ ret'.notified[Len(ret'.notified)].m = translationMetadata'
       \/ \E p \in ProcIds :
            /\ procs[p].st = "pending"
            /\ procs'[p] # procs[p]
            /\ procs'[p].st = "pending" \/ procs'[p].notifs > procs[p].notifs]_vars

(***************************************************************************)
(* C26: a call of t changes nothing but the key registry: the trees, the   *)
(* metadata, the active language, the subscribers and the persisted items  *)
(* are the same before and after it, no load is started or advanced, and   *)
(* the call notifies nobody.                                               *)
(***************************************************************************)
C26_ResolveChangesRegistryOnly ==
  [][ret'.op = "t" =>
       /\ UNCHANGED <<globalTranslations, keyOrder, translationMetadata, globalLang,
                      subscribers, storage, procs>>
       /\ "notified" \notin DOMAIN ret']_vars

\* t('a.b') has met a tree of the active language in which a.b is absent
C26_Witness ==
  /\ ret.op = "t"
  /\ ret.key = kAB
  /\ ret.result = TodoText(kAB)
  /\ globalLang \in DOMAIN globalTranslations
  /\ NodeAt(TreeOf(globalTranslations, globalLang), Split(kAB)).t = "undef"
  /\ globalKeys = {kAB}

(***************************************************************************)
(* C27: in override-enabled mode an edit is not lost to a load: after      *)
(* saveEdit of a non-empty value at a key of the active language, once a   *)
(* load that was running or was started later has ended, t(key) on that    *)
(* language gives the value, as long as no later edit is made and the      *)
(* language is not removed.                                                *)
(***************************************************************************)
C27_EditSurvivesReconcile ==
  (enableUI /\ lastEdit.has /\ lastEdit.loaded /\ lastEdit.value # <<>>) =>
    internalT(TreeOf(globalTranslations, lastEdit.lang), lastEdit.key, NoVars) = lastEdit.value

(***************************************************************************)
(* C28: in every reachable state every metadata entry agrees with the      *)
(* store: its status is the status of the value that is now at its key in  *)
(* the tree of its language (missing when the key is absent), and its      *)
(* characterCount is the length of that value (0 when the key is absent).  *)
(***************************************************************************)
C28_MetadataAgreesWithStore ==
  \A l \in DOMAIN translationMetadata :
    \A k \in DOMAIN translationMetadata[l] :
      LET node == NodeAt(TreeOf(globalTranslations, l), Split(k))
          absent == node.t \in {"undef", "null"}
          text == IF absent THEN <<>> ELSE JsToString(node)
      IN /\ translationMetadata[l][k].status = Classify(absent, text)
         /\ translationMetadata[l][k].characterCount = Len(text)

(***************************************************************************)
(* C29: addLanguage with a code whose lower-cased form is a language of    *)
(* the store already leaves the tree of that language as it was, so every  *)
(* key of it resolves as before.                                           *)
(***************************************************************************)
C29_AddExistingKeepsTree ==
  [][(ret'.op = "addLanguage" /\ LowerCased(ret'.code) \in DOMAIN globalTranslations) =>
       /\ LowerCased(ret'.code) \in DOMAIN globalTranslations'
       /\ globalTranslations'[LowerCased(ret'.code)] =
            globalTranslations[LowerCased(ret'.code)]]_vars

(***************************************************************************)
(* C30: once the startup load and its cleanup have ended, the active       *)
(* language is a language of the store in every state.                     *)
(***************************************************************************)
C30_ActiveLanguageIsInStore ==
  (~moduleError /\ procs[0].st = "done") => globalLang \in DOMAIN globalTranslations

====
